---- MODULE Spec2Model ----
(***************************************************************************)
(* A model of the skip list of src/skiplist.go: the node heap, the list   *)
(* fields head/level/length/keyType, one cursor, and one action per       *)
(* operation that changes the list or the cursor; the operations that     *)
(* only read are operators on the state.  Slices are 0-based in the       *)
(* source and 1-based here: forward[i] of the source is forward[i + 1].   *)
(***************************************************************************)
EXTENDS Integers, Sequences, FiniteSets, TLC

VARIABLES
    heap,     \* the nodes, by address: heap[a] = [key, value, forward]
    level,    \* SkipList.level
    length,   \* SkipList.length
    keyType,  \* SkipList.keyType
    it,       \* the outstanding SkipListIterator: [node, isHead]
    last      \* the last call and what it returned: [op, err, ok, was]

vars == <<heap, level, length, keyType, it, last>>

-----------------------------------------------------------------------------
(* Bounds of the model *)

\* Insert creates no node once the list holds this many
MaxNodes == 3

\* int keys are 0..MaxIntKey
MaxIntKey == 2

\* a call that would leave more nodes than this off the list, held by the
\* cursor alone, is not taken
MaxOffList == 1

-----------------------------------------------------------------------------
(* Program constants *)

\* var DefaultMaxLevel = 48
DefaultMaxLevel == 48

\* randomLevel: level < 32
MaxLevel == 32

\* a nil *node
NIL == 0

\* the address of the head sentinel, s.head
head == 1

-----------------------------------------------------------------------------
(* interface{} values: a type tag and the payload.  A string is the       *)
(* sequence of its bytes; the bytes used are 1 ("a") and 2 ("b").         *)

Nil == [t |-> "nil", i |-> 0, s |-> <<>>]

IntOf(n) == [t |-> "int", i |-> n, s |-> <<>>]

StringOf(s) == [t |-> "string", i |-> 0, s |-> s]

\* a key of a type compare does not know (a float64)
Float == [t |-> "float64", i |-> 0, s |-> <<>>]

IntKeys == {IntOf(n) : n \in 0..MaxIntKey}

\* "", "ab", "b"
StrKeys == {StringOf(<<>>), StringOf(<<1, 2>>), StringOf(<<2>>)}

Keys == {Nil} \cup IntKeys \cup StrKeys \cup {Float}

Values == {IntOf(1), IntOf(2)}

\* the key types a list is made for
KeyTypes == {"int", "string"}

\* error values
NoErr == "nil"

ErrNilKey == "Key cannot be nil"

ErrNotFound == "Key not found"

\* the runtime panic of a slice index that is out of range
ErrIndex == "panic: index out of range"

-----------------------------------------------------------------------------
(* Comparisons *)

RECURSIVE StringsCompare(_, _)
\* strings.Compare: -1, 0 or 1 by lexicographic byte order
StringsCompare(a, b) ==
    IF a = <<>> /\ b = <<>> THEN 0
    ELSE IF a = <<>> THEN -1
    ELSE IF b = <<>> THEN 1
    ELSE IF Head(a) < Head(b) THEN -1
    ELSE IF Head(a) > Head(b) THEN 1
    ELSE StringsCompare(Tail(a), Tail(b))

\* func (s *SkipList) compare(a, b interface{}) int
compare(a, b) ==
    IF a.t = "int" THEN
        IF b.t # "int" THEN 0
        ELSE IF a.i < b.i THEN -1
        ELSE IF a.i > b.i THEN 1
        ELSE 0
    ELSE IF a.t = "string" THEN
        IF b.t # "string" THEN 0
        ELSE StringsCompare(a.s, b.s)
    ELSE 0

\* compareKeysOrValues with the int comparison turned round
compareKeysOrValuesGreater(a, b) ==
    IF a.t = "int" /\ b.t = "int" THEN a.i > b.i
    ELSE IF a.t = "string" /\ b.t = "string" THEN StringsCompare(a.s, b.s) < 0
    ELSE FALSE

\* func compareKeysOrValues(a, b interface{}) bool
compareKeysOrValues(a, b) ==
    IF a.t = "int" /\ b.t = "int" THEN a.i < b.i
    ELSE IF a.t = "string" /\ b.t = "string" THEN StringsCompare(a.s, b.s) < 0
    ELSE FALSE

-----------------------------------------------------------------------------
(* The heap *)

\* n.forward[i]
Fwd(hp, n, i) == hp[n].forward[i + 1]

\* make([]*node, n)
MakeNodes(n) == [j \in 1..n |-> NIL]

RECURSIVE AdvancePastEqual(_, _, _, _)
\* the traversal loop with <= 0 for < 0: it walks past the key it looks for
AdvancePastEqual(hp, current, i, key) ==
    IF Fwd(hp, current, i) # NIL /\ compare(hp[Fwd(hp, current, i)].key, key) <= 0
    THEN AdvancePastEqual(hp, Fwd(hp, current, i), i, key)
    ELSE current

\* the traversal loop as an if: it takes one step along the level at most
AdvanceOneStep(hp, current, i, key) ==
    IF Fwd(hp, current, i) # NIL /\ compare(hp[Fwd(hp, current, i)].key, key) < 0
    THEN Fwd(hp, current, i)
    ELSE current

RECURSIVE Advance(_, _, _, _)
\* for current.forward[i] != nil && s.compare(current.forward[i].key, key) < 0
Advance(hp, current, i, key) ==
    IF Fwd(hp, current, i) # NIL /\ compare(hp[Fwd(hp, current, i)].key, key) < 0
    THEN Advance(hp, Fwd(hp, current, i), i, key)
    ELSE current

\* the descent without the walk along each level: every predecessor is the head
DescendNoAdvance(hp, current, i, key, update) ==
    [j \in 1..Len(update) |-> IF j <= i + 1 THEN current ELSE update[j]]

RECURSIVE Descend(_, _, _, _, _)
\* for i := s.level - 1; i >= 0; i-- { ...; update[i] = current }
Descend(hp, current, i, key, update) ==
    IF i < 0 THEN update
    ELSE LET c == Advance(hp, current, i, key)
         IN Descend(hp, c, i - 1, key, [update EXCEPT ![i + 1] = c])

\* the update vector of Insert and Delete
FindUpdate(hp, lvl, key) == Descend(hp, head, lvl - 1, key, MakeNodes(lvl))

-----------------------------------------------------------------------------
(* Node addresses.  An address is only ever compared with another one, so  *)
(* the heap is kept in one canonical numbering: the head, then the level-0 *)
(* chain of the list, then what else the head reaches, then what only the  *)
(* cursor reaches: a cursor holds a *node, so the nodes a Delete or Clear  *)
(* took off the list live on while the cursor still reaches them.  A node  *)
(* neither the list nor the cursor reaches is dropped, as the garbage      *)
(* collector drops it.                                                     *)

RECURSIVE Reach(_, _)
\* the addresses reachable from the set S through forward pointers
Reach(hp, S) ==
    LET T == S \cup (UNION {{hp[n].forward[j] : j \in 1..Len(hp[n].forward)} : n \in S}
                      \ {NIL})
    IN IF T = S THEN S ELSE Reach(hp, T)

RECURSIVE Chain(_, _, _)
\* the level-0 chain from n, n included
Chain(hp, n, fuel) ==
    IF n = NIL \/ fuel = 0 THEN <<>>
    ELSE <<n>> \o Chain(hp, Fwd(hp, n, 0), fuel - 1)

RECURSIVE AddNew(_, _)
\* order followed by the addresses of more it does not hold yet
AddNew(order, more) ==
    IF more = <<>> THEN order
    ELSE IF \E j \in 1..Len(order) : order[j] = Head(more)
         THEN AddNew(order, Tail(more))
         ELSE AddNew(Append(order, Head(more)), Tail(more))

RECURSIVE Ascending(_)
\* the addresses of S in ascending order
Ascending(S) ==
    IF S = {} THEN <<>>
    ELSE LET m == CHOOSE x \in S : \A y \in S : x <= y
         IN <<m>> \o Ascending(S \ {m})

\* the addresses the list and the cursor c reach, in the canonical order
Order(hp, c) ==
    LET list == AddNew(AddNew(<<head>>, Chain(hp, head, Len(hp))),
                       Ascending(Reach(hp, {head})))
    IN IF c.node = NIL THEN list
       ELSE AddNew(AddNew(list, Chain(hp, c.node, Len(hp))),
                   Ascending(Reach(hp, {c.node})))

\* the address a has in the canonical order
Renumber(order, a) ==
    IF a = NIL THEN NIL ELSE CHOOSE j \in 1..Len(order) : order[j] = a

\* the heap renumbered
Collect(hp, c) ==
    LET order == Order(hp, c)
    IN [j \in 1..Len(order) |->
          [hp[order[j]] EXCEPT !.forward = [x \in 1..Len(@) |-> Renumber(order, @[x])]]]

\* the number of nodes of the heap hp that the head does not reach
OffList(hp) == Len(hp) - Cardinality(Reach(hp, {head}))

\* the cursor c with its node renumbered
Moved(hp, c) == [c EXCEPT !.node = Renumber(Order(hp, c), @)]

-----------------------------------------------------------------------------
(* Insert, Search, Delete, Clear *)

\* update[i] = s.head for i := s.level; i < level: whether every index is in range
GrowInRange(update, lvl, h) == \A i \in lvl..(h - 1) : i < Len(update)

RECURSIVE SpliceDropsTail(_, _, _, _, _)
\* the splice loop without newNode.forward[i] = update[i].forward[i]
SpliceDropsTail(hp, update, newNode, i, h) ==
    IF i >= h THEN hp
    ELSE SpliceDropsTail([hp EXCEPT ![update[i + 1]].forward[i + 1] = newNode],
                         update, newNode, i + 1, h)

RECURSIVE Splice(_, _, _, _, _)
\* for i := 0; i < level; i++ { newNode.forward[i] = update[i].forward[i]; ... }
Splice(hp, update, newNode, i, h) ==
    IF i >= h THEN hp
    ELSE Splice([hp EXCEPT ![newNode].forward[i + 1] = Fwd(hp, update[i + 1], i),
                           ![update[i + 1]].forward[i + 1] = newNode],
                update, newNode, i + 1, h)

\* Insert with the level h that randomLevel returns, when it is called.  update
\* is make([]*node, s.level): for h > s.level the first store of the loop at
\* lines 191-193, update[s.level] = s.head, is out of range and the call ends
\* in a panic with nothing written yet.
InsertResult(hp, lvl, len, key, value, h) ==
    IF key = Nil THEN [heap |-> hp, level |-> lvl, length |-> len, err |-> ErrNilKey]
    ELSE
    LET update == FindUpdate(hp, lvl, key)
        current == Fwd(hp, update[1], 0)
    IN IF current # NIL /\ compare(hp[current].key, key) = 0
       THEN [heap |-> [hp EXCEPT ![current].value = value],
             level |-> lvl, length |-> len, err |-> NoErr]
       ELSE IF h > lvl /\ ~GrowInRange(update, lvl, h)
       THEN [heap |-> hp, level |-> lvl, length |-> len, err |-> ErrIndex]
       ELSE
       LET grown == [j \in 1..Len(update) |->
                        IF lvl <= j - 1 /\ j - 1 < h THEN head ELSE update[j]]
           newNode == Len(hp) + 1
           hp1 == Append(hp, [key |-> key, value |-> value, forward |-> MakeNodes(h)])
       IN [heap |-> Splice(hp1, grown, newNode, 0, h),
           level |-> IF h > lvl THEN h ELSE lvl,
           length |-> len + 1, err |-> NoErr]

\* whether Insert(key, _) reaches the call of randomLevel
CallsRandomLevel(hp, lvl, key) ==
    /\ key # Nil
    /\ LET current == Fwd(hp, FindUpdate(hp, lvl, key)[1], 0)
       IN ~(current # NIL /\ compare(hp[current].key, key) = 0)

\* func (s *SkipList) randomLevel() int: the levels it can return
randomLevel == 1..MaxLevel

\* func (s *SkipList) Search(key interface{}) (interface{}, error)
SearchResult(hp, lvl, key) ==
    IF key = Nil THEN [value |-> Nil, err |-> ErrNilKey]
    ELSE
    LET current == Fwd(hp, FindUpdate(hp, lvl, key)[1], 0)
    IN IF current # NIL /\ compare(hp[current].key, key) = 0
       THEN [value |-> hp[current].value, err |-> NoErr]
       ELSE [value |-> Nil, err |-> ErrNotFound]

\* the unlink loop with its test turned round: it breaks where it should unlink
UnlinkBreaksAtOnce(hp, update, current, i, lvl) ==
    IF i >= lvl THEN hp
    ELSE IF Fwd(hp, update[i + 1], i) = current THEN hp
    ELSE [hp EXCEPT ![update[i + 1]].forward[i + 1] = Fwd(hp, current, i)]

\* the unlink loop that cuts the chain at the node instead of bridging over it
UnlinkDropsTail(hp, update, current, i, lvl) ==
    IF i >= lvl THEN hp
    ELSE IF Fwd(hp, update[i + 1], i) # current THEN hp
    ELSE [hp EXCEPT ![update[i + 1]].forward[i + 1] = NIL]

RECURSIVE Unlink(_, _, _, _, _)
\* for i := 0; i < s.level; i++ { if update[i].forward[i] != current { break } ... }
Unlink(hp, update, current, i, lvl) ==
    IF i >= lvl THEN hp
    ELSE IF Fwd(hp, update[i + 1], i) # current THEN hp
    ELSE Unlink([hp EXCEPT ![update[i + 1]].forward[i + 1] = Fwd(hp, current, i)],
                update, current, i + 1, lvl)

\* the shrink loop without its level > 1 bound
ShrinkBelowOne(hp, lvl) ==
    IF Fwd(hp, head, lvl - 1) = NIL THEN lvl - 1 ELSE lvl

RECURSIVE Shrink(_, _)
\* for s.level > 1 && s.head.forward[s.level-1] == nil { s.level-- }
Shrink(hp, lvl) ==
    IF lvl > 1 /\ Fwd(hp, head, lvl - 1) = NIL THEN Shrink(hp, lvl - 1) ELSE lvl

\* Delete that counts a node off before it has looked for the key
DeleteResultCountsMiss(hp, lvl, len, key) ==
    IF key = Nil THEN [heap |-> hp, level |-> lvl, length |-> len, err |-> ErrNilKey]
    ELSE
    LET update == FindUpdate(hp, lvl, key)
        current == Fwd(hp, update[1], 0)
        less == IF len > 0 THEN len - 1 ELSE len
    IN IF current # NIL /\ compare(hp[current].key, key) = 0
       THEN LET hp1 == Unlink(hp, update, current, 0, lvl)
            IN [heap |-> hp1, level |-> Shrink(hp1, lvl), length |-> less,
                err |-> NoErr]
       ELSE [heap |-> hp, level |-> lvl, length |-> less, err |-> ErrNotFound]

\* func (s *SkipList) Delete(key interface{}) error
DeleteResult(hp, lvl, len, key) ==
    IF key = Nil THEN [heap |-> hp, level |-> lvl, length |-> len, err |-> ErrNilKey]
    ELSE
    LET update == FindUpdate(hp, lvl, key)
        current == Fwd(hp, update[1], 0)
    IN IF current # NIL /\ compare(hp[current].key, key) = 0
       THEN LET hp1 == Unlink(hp, update, current, 0, lvl)
            IN [heap |-> hp1, level |-> Shrink(hp1, lvl), length |-> len - 1,
                err |-> NoErr]
       ELSE [heap |-> hp, level |-> lvl, length |-> len, err |-> ErrNotFound]

\* Clear without the new forward slice of the head
ClearKeepsForward(hp) == [heap |-> hp, level |-> 1, length |-> 0]

\* Clear with a head of one forward slot, as NewSkipList makes it
ClearOneSlot(hp) ==
    [heap |-> [hp EXCEPT ![head].forward = MakeNodes(1)], level |-> 1, length |-> 0]

\* func (s *SkipList) Clear()
ClearResult(hp) ==
    [heap |-> [hp EXCEPT ![head].forward = MakeNodes(DefaultMaxLevel)],
     level |-> 1, length |-> 0]

-----------------------------------------------------------------------------
(* The cursor *)

\* no cursor has been made yet
NoIterator == [node |-> NIL, isHead |-> FALSE]

\* func (s *SkipList) Iterator() *SkipListIterator
IteratorResult == [node |-> head, isHead |-> TRUE]

\* Next that goes back to the head when it finds no successor
NextWrapsAround(hp, c) ==
    IF Fwd(hp, c.node, 0) # NIL
    THEN [it |-> [node |-> Fwd(hp, c.node, 0), isHead |-> FALSE], ok |-> TRUE]
    ELSE [it |-> IteratorResult, ok |-> FALSE]

\* func (it *SkipListIterator) Next() bool: the cursor after the call and the result
NextResult(hp, c) ==
    IF Fwd(hp, c.node, 0) # NIL
    THEN [it |-> [node |-> Fwd(hp, c.node, 0), isHead |-> FALSE], ok |-> TRUE]
    ELSE [it |-> c, ok |-> FALSE]

\* func (it *SkipListIterator) Key() interface{}
KeyResult(hp, c) == IF c.isHead THEN Nil ELSE hp[c.node].key

\* func (it *SkipListIterator) Value() interface{}
ValueResult(hp, c) == IF c.isHead THEN Nil ELSE hp[c.node].value

-----------------------------------------------------------------------------
(* Minimum, maximum and sorted snapshots *)

RECURSIVE MinStringScan(_, _, _)
\* the loop of MinString: minKey after the scan from current
MinStringScan(hp, current, minKey) ==
    IF current = NIL THEN minKey
    ELSE LET key == hp[current].key
             m == IF key.t = "string"
                        /\ (minKey = <<>> \/ StringsCompare(key.s, minKey) < 0)
                  THEN key.s ELSE minKey
         IN MinStringScan(hp, Fwd(hp, current, 0), m)

\* func (s *SkipList) MinString() (string, bool)
MinStringResult(hp, len) ==
    IF len = 0 THEN [key |-> StringOf(<<>>), ok |-> FALSE]
    ELSE LET minKey == MinStringScan(hp, Fwd(hp, head, 0), <<>>)
         IN IF minKey # <<>> THEN [key |-> StringOf(minKey), ok |-> TRUE]
            ELSE [key |-> StringOf(<<>>), ok |-> FALSE]

RECURSIVE MaxStringScan(_, _, _)
\* the loop of MaxString: maxKey after the scan from current
MaxStringScan(hp, current, maxKey) ==
    IF current = NIL THEN maxKey
    ELSE LET key == hp[current].key
             m == IF key.t = "string"
                        /\ (maxKey = <<>> \/ StringsCompare(key.s, maxKey) > 0)
                  THEN key.s ELSE maxKey
         IN MaxStringScan(hp, Fwd(hp, current, 0), m)

\* func (s *SkipList) MaxString() (string, bool)
MaxStringResult(hp, len) ==
    IF len = 0 THEN [key |-> StringOf(<<>>), ok |-> FALSE]
    ELSE LET maxKey == MaxStringScan(hp, Fwd(hp, head, 0), <<>>)
         IN IF maxKey # <<>> THEN [key |-> StringOf(maxKey), ok |-> TRUE]
            ELSE [key |-> StringOf(<<>>), ok |-> FALSE]

\* the inner loop of MaxInt as an if: it takes one step where it should walk on
RightmostOneStep(hp, current, i) ==
    IF Fwd(hp, current, i) # NIL /\ Fwd(hp, current, i) # head
    THEN Fwd(hp, current, i)
    ELSE current

RECURSIVE Rightmost(_, _, _)
\* for current.forward[i] != nil && current.forward[i] != s.head
Rightmost(hp, current, i) ==
    IF Fwd(hp, current, i) # NIL /\ Fwd(hp, current, i) # head
    THEN Rightmost(hp, Fwd(hp, current, i), i)
    ELSE current

RECURSIVE MaxIntDescend(_, _, _)
\* for i := s.level - 1; i >= 0; i--
MaxIntDescend(hp, current, i) ==
    IF i < 0 THEN current
    ELSE MaxIntDescend(hp, Rightmost(hp, current, i), i - 1)

\* func (s *SkipList) MaxInt() (int, bool)
MaxIntResult(hp, lvl, len) ==
    IF len = 0 THEN [key |-> IntOf(0), ok |-> FALSE]
    ELSE LET current == MaxIntDescend(hp, head, lvl - 1)
         IN IF hp[current].key.t = "int" THEN [key |-> hp[current].key, ok |-> TRUE]
            ELSE [key |-> IntOf(0), ok |-> FALSE]

RECURSIVE MinIntScan(_, _)
\* the loop of MinInt
MinIntScan(hp, current) ==
    IF current # NIL /\ current # head
    THEN IF hp[current].key.t = "int" THEN [key |-> hp[current].key, ok |-> TRUE]
         ELSE MinIntScan(hp, Fwd(hp, current, 0))
    ELSE [key |-> IntOf(0), ok |-> FALSE]

\* func (s *SkipList) MinInt() (int, bool)
MinIntResult(hp, len) ==
    IF len = 0 THEN [key |-> IntOf(0), ok |-> FALSE]
    ELSE MinIntScan(hp, Fwd(hp, head, 0))

\* the less function handed to sort.Slice
Less(result, i, j, reverse) ==
    IF reverse THEN compareKeysOrValues(result[j], result[i])
    ELSE compareKeysOrValues(result[i], result[j])

RECURSIVE SiftDown(_, _, _)
\* sort.Slice, inner loop: for j := i; j > a && less(j, j-1); j-- { swap(j, j-1) }
SiftDown(result, j, reverse) ==
    IF j > 1 /\ Less(result, j, j - 1, reverse)
    THEN SiftDown([result EXCEPT ![j] = result[j - 1], ![j - 1] = result[j]],
                  j - 1, reverse)
    ELSE result

RECURSIVE SortSlice(_, _, _)
\* sort.Slice on a slice of fewer than 12 elements: insertion sort from index i on
SortSlice(result, i, reverse) ==
    IF i > Len(result) THEN result
    ELSE SortSlice(SiftDown(result, i, reverse), i + 1, reverse)

RECURSIVE CollectKeys(_, _)
\* for current != nil { result = append(result, current.key); ... }
CollectKeys(hp, current) ==
    IF current = NIL THEN <<>>
    ELSE <<hp[current].key>> \o CollectKeys(hp, Fwd(hp, current, 0))

RECURSIVE CollectValues(_, _)
\* for current != nil { result = append(result, current.value); ... }
CollectValues(hp, current) ==
    IF current = NIL THEN <<>>
    ELSE <<hp[current].value>> \o CollectValues(hp, Fwd(hp, current, 0))

\* func (s *SkipList) SortByKey(reverse bool) []interface{}
SortByKeyResult(hp, len, reverse) ==
    IF len = 0 THEN <<>>
    ELSE SortSlice(CollectKeys(hp, Fwd(hp, head, 0)), 2, reverse)

\* func (s *SkipList) SortByValue(reverse bool) []interface{}
SortByValueResult(hp, len, reverse) ==
    IF len = 0 THEN <<>>
    ELSE SortSlice(CollectValues(hp, Fwd(hp, head, 0)), 2, reverse)

-----------------------------------------------------------------------------
(* The state machine: one action per operation that changes the list or    *)
(* the cursor.  last is the call and what it returned: err for an error    *)
(* (or the panic that ended the call), ok for a bool, and was for what     *)
(* Length() returned before the call.                                      *)

Returned(op, err, ok) == [op |-> op, err |-> err, ok |-> ok, was |-> length]

\* func NewSkipList(keyType reflect.Type) *SkipList
Init ==
    /\ heap = <<[key |-> Nil, value |-> Nil, forward |-> MakeNodes(1)]>>
    /\ level = 1
    /\ length = 0
    /\ keyType \in KeyTypes
    /\ it = NoIterator
    /\ last = [op |-> "NewSkipList", err |-> NoErr, ok |-> TRUE, was |-> 0]

\* The list's fields after a call that left r.heap, r.level, r.length.  The
\* call writes no field of the cursor: it stays on its node, on the list or off.
Store(r) ==
    /\ level' = r.level
    /\ length' = r.length
    /\ LET hp == Collect(r.heap, it)
       IN /\ OffList(hp) <= MaxOffList
          /\ heap' = hp
    /\ it' = Moved(r.heap, it)
    /\ UNCHANGED keyType

\* the return of Insert with the outcome r
Inserted(r) ==
    /\ r.length <= MaxNodes
    /\ last' = Returned("Insert", r.err, r.err = NoErr)
    /\ Store(r)

\* Insert when randomLevel, if called, returns h
InsertWith(key, value, h) == Inserted(InsertResult(heap, level, length, key, value, h))

\* func (s *SkipList) Insert(key, value interface{}) error: any of the outcomes
\* it has with a level that randomLevel can return
Insert(key, value) ==
    \E r \in {InsertResult(heap, level, length, key, value, h) :
                h \in IF CallsRandomLevel(heap, level, key) THEN randomLevel ELSE {1}} :
        Inserted(r)

\* func (s *SkipList) Delete(key interface{}) error
Delete(key) ==
    LET r == DeleteResult(heap, level, length, key)
    IN /\ last' = Returned("Delete", r.err, r.err = NoErr)
       /\ Store(r)

\* func (s *SkipList) Clear()
Clear ==
    /\ Store(ClearResult(heap))
    /\ last' = Returned("Clear", NoErr, TRUE)

\* func (s *SkipList) Iterator() *SkipListIterator
Iterator ==
    /\ it' = IteratorResult
    /\ heap' = Collect(heap, IteratorResult)
    /\ last' = Returned("Iterator", NoErr, TRUE)
    /\ UNCHANGED <<level, length, keyType>>

\* func (it *SkipListIterator) Next() bool
Next ==
    /\ it # NoIterator
    /\ LET r == NextResult(heap, it)
       IN /\ it' = Moved(heap, r.it)
          /\ heap' = Collect(heap, r.it)
          /\ last' = Returned("Next", NoErr, r.ok)
    /\ UNCHANGED <<level, length, keyType>>

Step ==
    \/ \E key \in Keys, value \in Values : Insert(key, value)
    \/ \E key \in Keys : Delete(key)
    \/ Clear
    \/ Iterator
    \/ Next

Spec == Init /\ [][Step]_vars

-----------------------------------------------------------------------------
(* What the claims speak of *)

\* the live nodes: what the head reaches
Nodes == Reach(heap, {head}) \ {head}

\* the list in the heap hp: the head and the nodes it reaches, which come
\* first in the canonical numbering
List(hp) == SubSeq(hp, 1, Cardinality(Reach(hp, {head})))

\* the cursor c stands on the list: on the head or on a live node
OnList(hp, c) == c.node \in Reach(hp, {head})

\* the keys the list holds
KeySet == {heap[n].key : n \in Nodes}

\* every key the list holds is of the list's key type
Typed == \A n \in Nodes : heap[n].key.t = keyType

\* the non-nil keys of the list's key type
TypedKeys == {key \in Keys : key.t = keyType}

\* the keys a fresh cursor visits: Key() after each Next() that returns true
RECURSIVE Visit(_, _)
Visit(hp, c) ==
    LET r == NextResult(hp, c)
    IN IF r.ok THEN <<KeyResult(hp, r.it)>> \o Visit(hp, r.it) ELSE <<>>

Visited == Visit(heap, IteratorResult)

Reverse(seq) == [j \in 1..Len(seq) |-> seq[Len(seq) + 1 - j]]

-----------------------------------------------------------------------------
(* C1 .. C10 *)

\* C1: Length() counts the distinct keys inserted and not since deleted or
\* cleared, whatever node heights are sampled.  Step by step, with keys of the
\* list's key type: an Insert of a key the list does not hold raises Length() by
\* one and an Insert of a key it holds leaves it, a Delete of a key it holds
\* lowers it by one and a Delete of another key leaves it, Clear makes it 0.
C1_LengthCountsKeys ==
    [][/\ \A key \in TypedKeys, value \in Values :
            Typed /\ Insert(key, value)
            => length' = IF key \in KeySet THEN length ELSE length + 1
       /\ \A key \in TypedKeys :
            Typed /\ Delete(key)
            => length' = IF key \in KeySet THEN length - 1 ELSE length
       /\ Clear => length' = 0]_vars

\* C2: Insert(k, v2) on a list that holds k with another value v1 creates no
\* node, leaves Length() as it was, and Search(k) then returns v2.
C2_UpsertKeepsLength ==
    [][\A key \in Keys \ {Nil}, value \in Values :
          (/\ last'.op = "Insert"
           /\ key \in KeySet
           /\ SearchResult(heap, level, key).value # value
           /\ Insert(key, value))
          => /\ last'.err = NoErr
             /\ Len(heap') = Len(heap)
             /\ length' = length
             /\ SearchResult(heap', level', key) = [value |-> value, err |-> NoErr]]_vars

\* an Insert returned success and Length() is what it was: an upsert
C2_Witness ==
    /\ last.op = "Insert"
    /\ last.err = NoErr
    /\ length = last.was
    /\ length >= 2

\* C3: in every reachable state, Search(k) and Delete(k) of a non-nil key of
\* the list's key type that the list does not hold return the NotFound error.
C3_AbsentKeyNotFound ==
    \A key \in TypedKeys \ KeySet :
        /\ SearchResult(heap, level, key).err = ErrNotFound
        /\ DeleteResult(heap, level, length, key).err = ErrNotFound

\* C4: Delete(k) of a key the list holds returns success, Length() is one less
\* afterwards, and Search(k) then returns NotFound.
C4_DeleteRemoves ==
    [][\A key \in Keys \ {Nil} :
          (last'.op = "Delete" /\ key \in KeySet /\ Delete(key))
          => /\ last'.err = NoErr
             /\ length' = length - 1
             /\ SearchResult(heap', level', key).err = ErrNotFound]_vars

\* a Delete returned success and left keys in the list
C4_Witness ==
    /\ last.op = "Delete"
    /\ last.err = NoErr
    /\ length = last.was - 1
    /\ length >= 1

\* C5: a fresh cursor driven by Next() visits the keys in strictly ascending
\* order, as many of them as Length() says; and a cursor on the list whose
\* Next() has returned false stands on the greatest key.
C5_IterationAscending ==
    /\ \A j \in 1..(Len(Visited) - 1) : compare(Visited[j], Visited[j + 1]) < 0
    /\ Len(Visited) = length
    /\ (last.op = "Next" /\ ~last.ok /\ length > 0 /\ OnList(heap, it))
       => KeyResult(heap, it) = Visited[Len(Visited)]

\* a cursor has been driven to its end over a list of at least two keys
C5_Witness ==
    /\ last.op = "Next"
    /\ ~last.ok
    /\ length >= 2
    /\ ~it.isHead
    /\ OnList(heap, it)

\* C6: SortByKey(false) returns the keys a full iteration visits, in that order,
\* and SortByKey(true) returns them in the opposite order.
C6_SortByKeyIsIteration ==
    /\ SortByKeyResult(heap, length, FALSE) = Visited
    /\ SortByKeyResult(heap, length, TRUE) = Reverse(Visited)

\* a list of three keys, whose descending snapshot starts with the last key visited
C6_Witness ==
    /\ length >= 3
    /\ Len(SortByKeyResult(heap, length, TRUE)) = 3
    /\ SortByKeyResult(heap, length, TRUE)[1] = Visited[3]
    /\ SortByKeyResult(heap, length, TRUE)[1] # Visited[1]

\* C7: after Clear() the list is empty to every observer: Length() is 0, the
\* first Next() of a fresh cursor returns false, Search of any key returns
\* NotFound.
C7_ClearEmpties ==
    last.op = "Clear" =>
        /\ length = 0
        /\ ~NextResult(heap, IteratorResult).ok
        /\ \A key \in Keys \ {Nil} : SearchResult(heap, level, key).err = ErrNotFound

\* Clear() has run on a list of at least two keys
C7_Witness ==
    /\ last.op = "Clear"
    /\ last.was >= 2

\* C8: Insert fails on a nil key only: with every other key, and every height
\* the sampler returns, it returns success.
C8_InsertNeverFails ==
    [][\A key \in Keys, value \in Values :
          Insert(key, value)
          => last'.err = IF key = Nil THEN ErrNilKey ELSE NoErr]_vars

\* C9: Insert, Search and Delete of a nil key return the NilKey error and change
\* nothing; the empty string is no nil key: Insert("", v) returns success and
\* Search("") then returns v.
C9_NilKeyRejectedEmptyStringKept ==
    [][/\ \A value \in Values :
            Insert(Nil, value)
            => last'.err = ErrNilKey /\ UNCHANGED <<heap, level, length>>
       /\ Delete(Nil) => last'.err = ErrNilKey /\ UNCHANGED <<heap, level, length>>
       /\ SearchResult(heap, level, Nil).err = ErrNilKey
       /\ \A value \in Values :
            Insert(StringOf(<<>>), value)
            => /\ last'.err = NoErr
               /\ SearchResult(heap', level', StringOf(<<>>))
                  = [value |-> value, err |-> NoErr]]_vars

\* the least of a set of string keys
LeastString(S) == CHOOSE a \in S : \A b \in S : StringsCompare(a.s, b.s) <= 0

\* the greatest of a set of string keys
GreatestString(S) == CHOOSE a \in S : \A b \in S : StringsCompare(a.s, b.s) >= 0

\* C10: on a list of string keys that is not empty, MinString() returns the
\* least key and true, MaxString() the greatest key and true, the empty string
\* being a key like any other; on the empty list both return false.
C10_MinMaxString ==
    (keyType = "string" /\ Typed) =>
        IF length = 0
        THEN ~MinStringResult(heap, length).ok /\ ~MaxStringResult(heap, length).ok
        ELSE /\ MinStringResult(heap, length) = [key |-> LeastString(KeySet), ok |-> TRUE]
             /\ MaxStringResult(heap, length)
                = [key |-> GreatestString(KeySet), ok |-> TRUE]

-----------------------------------------------------------------------------
(* C11 .. C20 *)

\* the least of a set of int keys
LeastInt(S) == CHOOSE a \in S : \A b \in S : a.i <= b.i

\* the greatest of a set of int keys
GreatestInt(S) == CHOOSE a \in S : \A b \in S : a.i >= b.i

\* C11: on a list of int keys MinInt() and MaxInt() return what a full scan of
\* the level-0 chain finds: the least and the greatest key with true when the
\* list holds keys, false when it is empty.
C11_MinMaxInt ==
    (keyType = "int" /\ Typed) =>
        IF length = 0
        THEN ~MinIntResult(heap, length).ok /\ ~MaxIntResult(heap, level, length).ok
        ELSE /\ MinIntResult(heap, length)
                = [key |-> LeastInt({Visited[j] : j \in 1..Len(Visited)}), ok |-> TRUE]
             /\ MaxIntResult(heap, level, length)
                = [key |-> GreatestInt({Visited[j] : j \in 1..Len(Visited)}), ok |-> TRUE]

\* a list of three int keys, with a least and a greater greatest key
C11_Witness ==
    /\ keyType = "int"
    /\ Typed
    /\ length >= 3
    /\ MinIntResult(heap, length).ok
    /\ MaxIntResult(heap, level, length).key.i > MinIntResult(heap, length).key.i + 1

\* the node of key on the level-i chain of the heap hp, NIL when it is not there
RECURSIVE OnLevel(_, _, _, _, _)
OnLevel(hp, n, i, key, fuel) ==
    IF n = NIL \/ fuel = 0 THEN NIL
    ELSE IF n # head /\ hp[n].key = key THEN n
    ELSE IF i >= Len(hp[n].forward) THEN NIL
    ELSE OnLevel(hp, Fwd(hp, n, i), i, key, fuel - 1)

\* C12: an Insert of a new key whose sampled height h is above level extends the
\* head's forward array to h, makes level h, and leaves the new node as
\* head.forward[i] for each new level i.
C12_InsertGrowsLevel ==
    [][\A key \in Keys, value \in Values, h \in randomLevel :
          (/\ CallsRandomLevel(heap, level, key)
           /\ h > level
           /\ InsertWith(key, value, h))
          => /\ last'.err = NoErr
             /\ level' = h
             /\ Len(heap'[head].forward) >= h
             /\ \A i \in level..(h - 1) :
                   /\ Fwd(heap', head, i) # NIL
                   /\ heap'[Fwd(heap', head, i)].key = key]_vars

\* the nodes of the level-i chain of the heap hp in order, starting after n
RECURSIVE LevelChain(_, _, _, _)
LevelChain(hp, n, i, fuel) ==
    IF fuel = 0 \/ i >= Len(hp[n].forward) \/ Fwd(hp, n, i) = NIL
    THEN <<>>
    ELSE <<Fwd(hp, n, i)>> \o LevelChain(hp, Fwd(hp, n, i), i, fuel - 1)

\* the set of the elements of a sequence
Range(seq) == {seq[j] : j \in 1..Len(seq)}

\* C13: along the chain of every level the keys strictly increase under
\* compare, and every node on the chain of level i is on the chain of level i-1.
C13_LevelsOrderedAndNested ==
    \A i \in 0..(Len(heap[head].forward) - 1) :
        LET c == LevelChain(heap, head, i, Len(heap))
        IN /\ \A j \in 1..(Len(c) - 1) : compare(heap[c[j]].key, heap[c[j + 1]].key) < 0
           /\ i > 0 => Range(c) \subseteq Range(LevelChain(heap, head, i - 1, Len(heap)))

C13_Witness ==
    /\ Len(LevelChain(heap, head, 0, Len(heap))) = MaxNodes
    /\ last.op = "Insert" /\ last.ok /\ last.was = MaxNodes - 1

\* C14, as stated: in every reachable state the head's forward array is as
\* long as level.
C14_HeadForwardLenIsLevel == Len(heap[head].forward) = level

\* C14, as the code has it: the head's forward array is never shorter than
\* level and is either as long as level or DefaultMaxLevel long; it is as long
\* as level after NewSkipList, and DefaultMaxLevel long with level 1 after Clear.
C14_HeadForwardCoversLevel ==
    /\ Len(heap[head].forward) >= level
    /\ Len(heap[head].forward) \in {level, DefaultMaxLevel}
    /\ last.op = "NewSkipList" => Len(heap[head].forward) = level
    /\ last.op = "Clear" => (Len(heap[head].forward) = DefaultMaxLevel /\ level = 1)

C14_Witness ==
    /\ last.op = "Insert" /\ last.ok /\ length >= 2
    /\ Len(heap[head].forward) = DefaultMaxLevel /\ level = 1

\* the height of the tallest live node, 1 when there is none
Tallest ==
    IF Nodes = {} THEN 1
    ELSE CHOOSE m \in {Len(heap[n].forward) : n \in Nodes} :
            \A n \in Nodes : Len(heap[n].forward) <= m

\* C15: in every reachable state level is at least 1, equals the height of the
\* tallest live node (1 when the list is empty), and the head's pointer at
\* level-1 is set whenever level > 1; a Delete leaves level so.
C15_LevelIsTallest ==
    /\ level >= 1
    /\ level = Tallest
    /\ level > 1 => Fwd(heap, head, level - 1) # NIL

C15_Witness ==
    /\ last.op = "Delete" /\ last.ok /\ last.was = 1
    /\ length = 0 /\ level = 1 /\ Nodes = {}

\* the levels of the heap hp on whose chain the key lies
LevelsOf(hp, key) ==
    {i \in 0..(Len(hp[head].forward) - 1) : OnLevel(hp, head, i, key, Len(hp)) # NIL}

\* the key of the node Delete(key) finds in the current state
Found(key) == heap[Fwd(heap, FindUpdate(heap, level, key)[1], 0)].key

\* C16: after a successful Delete(k) the removed node is reachable from the head
\* at no level, and every other node is reachable on every level it was on.
C16_DeleteUnlinksFully ==
    [][\A key \in Keys :
          (last'.op = "Delete" /\ last'.err = NoErr /\ Delete(key))
          => /\ LevelsOf(heap', Found(key)) = {}
             /\ Found(key) \notin KeySet'
             /\ \A k2 \in KeySet \ {Found(key)} :
                   /\ LevelsOf(heap, k2) # {}
                   /\ LevelsOf(heap, k2) \subseteq LevelsOf(heap', k2)]_vars

C16_Witness ==
    /\ last.op = "Delete" /\ last.ok
    /\ last.was = MaxNodes /\ length = MaxNodes - 1
    /\ \A k2 \in KeySet : LevelsOf(heap, k2) = {0}
    /\ \E k \in TypedKeys \ KeySet : \E a, b \in KeySet : compare(a, k) < 0 /\ compare(k, b) < 0

\* the height of the node of the key in the heap hp
HeightOf(hp, key) ==
    Len(hp[CHOOSE n \in Reach(hp, {head}) \ {head} : hp[n].key = key].forward)

\* C17: an Insert or Delete that does not succeed leaves the nodes, every
\* forward pointer, level and length as they were; a successful Insert of a new
\* key puts the node on the chain of every level below its height, and a
\* successful Delete takes it off every level.
C17_NoPartialFailure ==
    [][/\ (last'.op \in {"Insert", "Delete"} /\ last'.err # NoErr)
          => (heap' = heap /\ level' = level /\ length' = length)
       /\ (last'.op = "Insert" /\ last'.err = NoErr /\ length' # length)
          => /\ length' = length + 1
             /\ \E key \in KeySet' \ KeySet :
                   /\ KeySet' = KeySet \cup {key}
                   /\ LevelsOf(heap', key) = 0..(HeightOf(heap', key) - 1)
             /\ \A k2 \in KeySet : LevelsOf(heap, k2) \subseteq LevelsOf(heap', k2)
       /\ (last'.op = "Delete" /\ last'.err = NoErr /\ vars' # vars)
          => /\ length' = length - 1
             /\ \E key \in KeySet \ KeySet' :
                   /\ KeySet' = KeySet \ {key}
                   /\ LevelsOf(heap', key) = {}
             /\ \A k2 \in KeySet' : LevelsOf(heap', k2) = LevelsOf(heap, k2)]_vars

\* a failed Insert on a list of several nodes
C17_Witness ==
    /\ last.op = "Insert" /\ last.err = ErrIndex
    /\ length = last.was /\ length = MaxNodes - 1

\* the keys compare cannot order: keys of two types, or a key of a type the
\* type switch of compareKeysOrValues has no case for
Unorderable(a, b) == a.t # b.t \/ a.t \notin KeyTypes

\* the value the list holds for a key it has
ValueOf(hp, key) ==
    hp[CHOOSE n \in Reach(hp, {head}) \ {head} : hp[n].key = key].value

\* C18: a non-nil key that compare cannot order against a stored key makes
\* Insert, Search and Delete fail: no node's value is overwritten or returned,
\* and no node is deleted, on behalf of that key.
C18_UnorderableKeyFails ==
    [][\A key \in Keys \ {Nil} :
          (\E k2 \in KeySet : Unorderable(key, k2))
          => /\ SearchResult(heap, level, key).err # NoErr
             /\ \A value \in Values :
                   Insert(key, value)
                   => /\ last'.err # NoErr
                      /\ \A k2 \in KeySet : k2 \in KeySet' /\ ValueOf(heap', k2) = ValueOf(heap, k2)
             /\ Delete(key) => (last'.err # NoErr /\ KeySet' = KeySet)]_vars

\* C19: for a cursor on a list that is not mutated, Key() and Value() are nil
\* until the first Next() that returns true; once Next() would return false it
\* does so ever after; the cursor never moves backwards or returns to the head
\* (the address of a node on the list is its place on the level-0 chain, the
\* head's being the least); after the exhaustion of a non-empty list Key() and
\* Value() are those of the last node, which holds the greatest key; on an
\* empty list they stay nil.  A cursor on a list that has not been mutated
\* stands on the list, and the steps are those that leave the list as it is.
C19_CursorForwardOnly ==
    [][/\ it.isHead
          => /\ it.node = head
             /\ KeyResult(heap, it) = Nil
             /\ ValueResult(heap, it) = Nil
       /\ (/\ OnList(heap, it)
           /\ last'.op # "Iterator"
           /\ List(heap') = List(heap))
          => /\ OnList(heap', it')
             /\ it'.node >= it.node
             /\ ~it.isHead => ~it'.isHead
             /\ ~NextResult(heap, it).ok => (it' = it /\ ~NextResult(heap', it').ok)
             /\ (last'.op = "Next" /\ ~last'.ok) => ~NextResult(heap, it).ok
             /\ (last'.op = "Next" /\ last'.ok)
                => (~it'.isHead /\ it'.node = Fwd(heap, it.node, 0))
       /\ (last.op = "Next" /\ ~last.ok /\ OnList(heap, it) /\ length > 0)
          => /\ KeyResult(heap, it) = Visited[length]
             /\ ValueResult(heap, it) = ValueOf(heap, Visited[length])
             /\ \A key \in KeySet : compare(key, KeyResult(heap, it)) <= 0
       /\ (last.op = "Next" /\ ~last.ok /\ OnList(heap, it) /\ length = 0)
          => /\ it.isHead
             /\ KeyResult(heap, it) = Nil
             /\ ValueResult(heap, it) = Nil]_vars

\* a cursor driven to its end over a full list, standing on a node of value 2
C19_Witness ==
    /\ last.op = "Next" /\ ~last.ok
    /\ length = MaxNodes
    /\ OnList(heap, it)
    /\ it.node = length + 1
    /\ ValueResult(heap, it) = IntOf(2)
    /\ KeyResult(heap, it) # Visited[1]

\* C20: Insert(k, v) and Delete(k) with keys of one type leave every other key
\* as it was: Search of any other key returns the same value and error before
\* and after the call, whatever height is sampled (a step that changes what
\* Search of a key returns is no Insert and no Delete of another key); and
\* making or moving a cursor changes nothing in the list.
C20_OtherKeysUntouched ==
    [][/\ \A k2 \in TypedKeys :
             (/\ last'.op \in {"Insert", "Delete"}
              /\ Typed
              /\ SearchResult(heap', level', k2) # SearchResult(heap, level, k2))
             => \A key \in TypedKeys \ {k2} :
                   /\ \A value \in Values : ~Insert(key, value)
                   /\ ~Delete(key)
       /\ last'.op \in {"Iterator", "Next"}
          => (List(heap') = List(heap) /\ level' = level /\ length' = length)]_vars

\* a new key has been put between two keys of a list of ints
C20_Witness ==
    /\ last.op = "Insert" /\ last.ok /\ last.was = length - 1
    /\ length = MaxNodes
    /\ keyType = "int" /\ Typed
    /\ SearchResult(heap, level, Visited[1]).value # SearchResult(heap, level, Visited[2]).value

====
